---- MODULE Spec2Model ----
(***************************************************************************)
(* Turn-assignment engine of robertolupi/turns: the three strategies       *)
(* src/algo/roundrobin.rs, src/algo/greedy.rs and src/algo/balanced.rs.    *)
(*                                                                         *)
(* Dates (chrono::NaiveDate) are integers: succ_opt is +1, checked_add_days*)
(* is +n, and the difference of two dates is a whole number of days.       *)
(* Roster indexes are 0-based as in the code (people[0] is the first       *)
(* person); a person's id is its roster index, and the id NumPeople is an  *)
(* id that is in no roster. Loads (chrono::TimeDelta) are whole days.      *)
(* Dates are counted from the first day of the window, so every window     *)
(* starts on day 1: the strategies only compare dates, take successors and *)
(* look dates up in a person's sets.                                       *)
(* One run of one strategy is one behaviour: Init is the state at the top  *)
(* of the `while current_day < end` loop, each action is one iteration of  *)
(* that loop together with the loop test and the return that follow it.    *)
(***************************************************************************)
EXTENDS Integers, Sequences, FiniteSets

\* ---------------------------------------------------------------- bounds
\* Largest roster.
MaxPeople == 3
\* Dates range over 1..MaxDay; the window is [1, end) with end <= MaxDay + 1.
MaxDay == 4
\* Largest turn length (turn_length_days, min_turn_days, max_turn_days).
MaxTurn == 2
\* Largest seeded load, in days.
MaxSeed == 2
\* Last day of the longest window of a run without roster facts.
LongDay == 10
\* Largest turn length of such a run.
LongTurn == 3
\* Largest roster of a run without roster facts over a short window.
WideRoster == 7

\* Option::None of an Option<usize>.
NoOne == -1

VARIABLES
    people,            \* Vec<Person>: 0..n-1 -> [ooo, preferences]
    start,             \* first day of the window (inclusive)
    end,               \* last day of the window (exclusive)
    algo,              \* "RoundRobin" | "Greedy" | "Balanced"
    turn_length_days,  \* round-robin and greedy parameter
    min_turn_days,     \* balanced parameter
    max_turn_days,     \* balanced parameter
    initial_load,      \* the seed: a set of <<id, days>>, one entry per id
    current_day,
    assignee,          \* round-robin cursor
    last_assignee,     \* greedy/balanced: NoOne or a roster index
    load,              \* greedy/balanced: 0..n-1 -> days
    turns,             \* Vec<Assignment>
    result,            \* "running" | "ok" | "err"
    err_day            \* the date of ScheduleError::NoOneAvailable

vars == <<people, start, end, algo, turn_length_days, min_turn_days,
          max_turn_days, initial_load, current_day, assignee, last_assignee,
          load, turns, result, err_day>>

inputs == <<people, start, end, algo, turn_length_days, min_turn_days,
            max_turn_days, initial_load>>

\* ------------------------------------------------------------- the roster
Days == 1..MaxDay

\* people.len()
NumPeople == Cardinality(DOMAIN people)

Min(a, b) == IF a < b THEN a ELSE b

\* PreferenceType
PreferenceType == {"Want", "NotWant"}

\* A roster fact: one entry of a person's ooo set, one day that is in
\* everybody's ooo set, one entry of a person's preference map, or one entry
\* of the seeded load table. The facts of a run are about the dates of its
\* window and the date that ends it; no strategy reads a later date.
FactUniverse(n, e) ==
    LET dates == {d \in Days : d <= e}
    IN  [kind : {"Ooo"}, who : 0..(n - 1), day : dates]
          \cup [kind : {"OooAll"}, who : {0}, day : dates]
          \cup [kind : PreferenceType, who : 0..(n - 1), day : dates]
          \cup [kind : {"Seed"}, who : 0..n, day : 0..MaxSeed]

\* The rosters and seeds of the model are those that at most two facts
\* describe: every pair of an OOO day, a preference and a seeded load, on
\* the same person or on two, on the same date or on two.
FactPairs(n, e) ==
    {{f, g} : f \in FactUniverse(n, e), g \in FactUniverse(n, e)} \cup {{}}

\* HashMap keys are unique: one preference per (person, date), one seeded
\* load per id.
WellFormed(F) ==
    \A f \in F, g \in F :
        /\ (f.kind \in PreferenceType /\ g.kind \in PreferenceType
              /\ f.who = g.who /\ f.day = g.day) => f = g
        /\ (f.kind = "Seed" /\ g.kind = "Seed" /\ f.who = g.who) => f = g

\* input::Person (id and name left out: the id is the roster index)
Person(F, i) ==
    [ooo |-> {f.day : f \in {g \in F : \/ g.kind = "Ooo" /\ g.who = i
                                       \/ g.kind = "OooAll"}},
     preferences |->
        [d \in {f.day : f \in {g \in F : g.kind \in PreferenceType /\ g.who = i}}
            |-> (CHOOSE f \in F : f.kind \in PreferenceType /\ f.who = i /\ f.day = d).kind]]

\* Option<HashMap<String, TimeDelta>>: None and Some(empty) are the empty set
Seed(F) == {<<f.who, f.day>> : f \in {g \in F : g.kind = "Seed"}}

\* SeededLoad that never finds the id in the table.
SeededLoad_Unseeded(il, id) == 0

\* il.get(&p.id).cloned().unwrap_or(TimeDelta::zero())
SeededLoad(il, id) ==
    IF \E e \in il : e[1] = id
    THEN (CHOOSE e \in il : e[1] = id)[2]
    ELSE 0

\* ------------------------------------------------------------ round-robin
\* InitialCursors that resumes at the holder of the maximum, not after it.
InitialCursors_AtHolder(il, n) ==
    IF il = {} THEN {0}
    ELSE {IF e[1] < n THEN e[1] ELSE 0 :
             e \in {x \in il : \A y \in il : y[2] <= x[2]}}

\* The initial cursor: 0, or the position after the person whose id holds
\* the maximum seeded load. max_by_key walks the HashMap in its (per-run
\* random) iteration order and keeps the last maximum, so any id that holds
\* the maximum may be the one found; an id that is in no roster leaves 0.
InitialCursors(il, n) ==
    IF il = {} THEN {0}
    ELSE {IF e[1] < n THEN (e[1] + 1) % n ELSE 0 :
             e \in {x \in il : \A y \in il : y[2] <= x[2]}}

\* RRScan that falls back to the person at the cursor, instead of failing,
\* when the scan wraps.
RECURSIVE RRScan_NoFailure(_, _, _)
RRScan_NoFailure(candidate, cursor, day) ==
    IF day \notin people[candidate].ooo THEN candidate
    ELSE LET next == (candidate + 1) % NumPeople
         IN  IF next = cursor THEN cursor ELSE RRScan_NoFailure(next, cursor, day)

\* RRScan that also passes over a person with a NotWant on the day.
RECURSIVE RRScan_SkipsNotWant(_, _, _)
RRScan_SkipsNotWant(candidate, cursor, day) ==
    IF /\ day \notin people[candidate].ooo
       /\ ~(/\ day \in DOMAIN people[candidate].preferences
            /\ people[candidate].preferences[day] = "NotWant")
    THEN candidate
    ELSE LET next == (candidate + 1) % NumPeople
         IN  IF next = cursor THEN NoOne ELSE RRScan_SkipsNotWant(next, cursor, day)

\* RRScan that walks the roster backwards.
RECURSIVE RRScan_Backwards(_, _, _)
RRScan_Backwards(candidate, cursor, day) ==
    IF day \notin people[candidate].ooo THEN candidate
    ELSE LET next == (candidate + NumPeople - 1) % NumPeople
         IN  IF next = cursor THEN NoOne ELSE RRScan_Backwards(next, cursor, day)

\* The scan for the first person, circularly from the cursor, who is not
\* OOO on `day`; NoOne when the scan wraps back to the cursor.
RECURSIVE RRScan(_, _, _)
RRScan(candidate, cursor, day) ==
    IF day \notin people[candidate].ooo THEN candidate
    ELSE LET next == (candidate + 1) % NumPeople
         IN  IF next = cursor THEN NoOne ELSE RRScan(next, cursor, day)

\* RRTurnEnd without the test of the candidate's ooo set.
RRTurnEnd_NoOooCut(candidate, day, last_day) == Min(last_day, end)

\* RRTurnEnd whose loop tests `current_day <= last_day`.
RECURSIVE RRTurnEnd_OneLong(_, _, _)
RRTurnEnd_OneLong(candidate, day, last_day) ==
    IF day <= last_day /\ day < end /\ day \notin people[candidate].ooo
    THEN RRTurnEnd_OneLong(candidate, day + 1, last_day)
    ELSE day

\* The day the turn ends: the loop that advances current_day while it is
\* before last_day, before end, and the candidate is not OOO on it.
RECURSIVE RRTurnEnd(_, _, _)
RRTurnEnd(candidate, day, last_day) ==
    IF day < last_day /\ day < end /\ day \notin people[candidate].ooo
    THEN RRTurnEnd(candidate, day + 1, last_day)
    ELSE day

\* RRNextCursor that counts from the cursor the scan began at.
RRNextCursor_FromScanStart(candidate) == (assignee + 1) % NumPeople

\* RRNextCursor that leaves the cursor on the person just assigned.
RRNextCursor_Stays(candidate) == candidate

\* (assignee + 1) % people.len() after assignee = candidate
RRNextCursor(candidate) == (candidate + 1) % NumPeople

\* Assignment { person, start, end }
Assignment(p, s, e) == [person |-> p, start |-> s, end |-> e]

\* The loop test written `current_day <= end`.
AfterTurn_TestsInclusive(day) == IF day <= end THEN "running" ELSE "ok"

\* The loop test that follows a committed turn, and the return after it.
AfterTurn(day) == IF day < end THEN "running" ELSE "ok"

\* One iteration of round-robin's loop.
RoundRobinStep ==
    /\ algo = "RoundRobin"
    /\ result = "running"
    /\ \E candidate \in {RRScan(assignee, assignee, current_day)} :
           IF candidate = NoOne
           THEN /\ result' = "err"
                /\ err_day' = current_day
                /\ UNCHANGED <<current_day, assignee, turns>>
           ELSE \E new_day \in {RRTurnEnd(candidate, current_day,
                                            current_day + turn_length_days)} :
                    /\ turns' = Append(turns, Assignment(candidate, current_day, new_day))
                    /\ current_day' = new_day
                    /\ assignee' = RRNextCursor(candidate)
                    /\ result' = AfterTurn(new_day)
                    /\ err_day' = err_day
    /\ UNCHANGED <<inputs, last_assignee, load>>

\* ------------------------------------------------------ greedy and balanced
\* TurnEndDate that counts the first day of the turn twice.
TurnEndDate_OneShort(day, len) == Min(end, day + len - 1)

\* TurnEndDate without the clamp to the end of the window.
TurnEndDate_NoClamp(day, len) == day + len

\* min(end, current_day + turn length)
TurnEndDate(day, len) == Min(end, day + len)

\* is_ooo_for_turn looking at the first day of the turn only.
IsOooForTurn_FirstDayOnly(person, start_date, end_date) ==
    start_date \in person.ooo

\* is_ooo_for_turn: the person is OOO on some day of [start_date, end_date)
IsOooForTurn(person, start_date, end_date) ==
    \E d \in start_date..(end_date - 1) : d \in person.ooo

\* has_want / has_not_want over [from, to)
HasPref(person, pref, from, to) ==
    \E d \in from..(to - 1) :
        d \in DOMAIN person.preferences /\ person.preferences[d] = pref

\* PreferenceBucket that tests has_not_want before has_want.
PreferenceBucket_NotWantFirst(person, from, to) ==
    IF HasPref(person, "NotWant", from, to) THEN "NotWant"
    ELSE IF HasPref(person, "Want", from, to) THEN "Want"
    ELSE "Neutral"

\* The bucket of a window: Want if any Want day, else NotWant if any NotWant
\* day, else Neutral.
PreferenceBucket(person, from, to) ==
    IF HasPref(person, "Want", from, to) THEN "Want"
    ELSE IF HasPref(person, "NotWant", from, to) THEN "NotWant"
    ELSE "Neutral"

\* Eligible without the exclusion of the last assignee.
Eligible_AllowRepeat(i, last, from, to) ==
    ~(\E d \in from..(to - 1) : d \in people[i].ooo)

\* Eligible that looks at the first day of the window only.
Eligible_StartDayOnly(i, last, from, to) ==
    /\ i # last
    /\ from \notin people[i].ooo

\* A candidate of a step: not the last assignee, and not OOO in the window.
Eligible(i, last, from, to) ==
    /\ i # last
    /\ ~IsOooForTurn(people[i], from, to)

\* people.iter().enumerate(): the roster indexes in order
RosterOrder == [k \in 1..NumPeople |-> k - 1]

\* want_candidates / neutral_candidates / not_want_candidates, in push order
Candidates(bucket, last, from, to) ==
    LET InBucket(i) == /\ Eligible(i, last, from, to)
                       /\ PreferenceBucket(people[i], from, to) = bucket
    IN  SelectSeq(RosterOrder, InBucket)

\* max_by_key in the place of min_by_key: the last element with the greatest
\* key.
RECURSIVE MinByKey_Greatest(_, _)
MinByKey_Greatest(s, key) ==
    IF Len(s) = 1 THEN s[1]
    ELSE LET rest == MinByKey_Greatest(Tail(s), key)
         IN  IF key[rest] >= key[s[1]] THEN rest ELSE s[1]

\* min_by_key that takes the first element, whatever the keys.
MinByKey_IgnoresKey(s, key) == s[1]

\* min_by_key that keeps the last of several least elements.
RECURSIVE MinByKey_LastMinimum(_, _)
MinByKey_LastMinimum(s, key) ==
    IF Len(s) = 1 THEN s[1]
    ELSE LET rest == MinByKey_LastMinimum(Tail(s), key)
         IN  IF key[rest] <= key[s[1]] THEN rest ELSE s[1]

\* Iterator::min_by_key over a non-empty Vec: the first element with the
\* least key.
RECURSIVE MinByKey(_, _)
MinByKey(s, key) ==
    IF Len(s) = 1 THEN s[1]
    ELSE LET rest == MinByKey(Tail(s), key)
         IN  IF key[rest] < key[s[1]] THEN rest ELSE s[1]

\* GreedyCandidate that looks at the Neutral bucket before the Want bucket.
GreedyCandidate_NeutralFirst(last, ld, from, to) ==
    LET want == Candidates("Want", last, from, to)
        neutral == Candidates("Neutral", last, from, to)
        not_want == Candidates("NotWant", last, from, to)
    IN  IF neutral # <<>> THEN MinByKey(neutral, ld)
        ELSE IF want # <<>> THEN MinByKey(want, ld)
        ELSE IF not_want # <<>> THEN MinByKey(not_want, ld)
        ELSE NoOne

\* The candidate of a greedy step: from the first non-empty bucket in the
\* order Want, Neutral, NotWant, the one with the least load; NoOne if all
\* three are empty.
GreedyCandidate(last, ld, from, to) ==
    LET want == Candidates("Want", last, from, to)
        neutral == Candidates("Neutral", last, from, to)
        not_want == Candidates("NotWant", last, from, to)
    IN  IF want # <<>> THEN MinByKey(want, ld)
        ELSE IF neutral # <<>> THEN MinByKey(neutral, ld)
        ELSE IF not_want # <<>> THEN MinByKey(not_want, ld)
        ELSE NoOne

\* AddLoad on a table that already holds the days of the turn: they are
\* added a second time.
AddLoad_Twice(ld, i, days) == [ld EXCEPT ![i] = @ + days + days]

\* load[assignee] += end - start
AddLoad(ld, i, days) == [ld EXCEPT ![i] = @ + days]

\* One iteration of greedy's loop.
GreedyStep ==
    /\ algo = "Greedy"
    /\ result = "running"
    /\ \E turn_end_date \in {TurnEndDate(current_day, turn_length_days)} :
         \E candidate \in {GreedyCandidate(last_assignee, load, current_day, turn_end_date)} :
           IF candidate = NoOne
           THEN /\ result' = "err"
                /\ err_day' = current_day
                /\ UNCHANGED <<current_day, last_assignee, load, turns>>
           ELSE /\ last_assignee' = candidate
                /\ turns' = Append(turns, Assignment(candidate, current_day, turn_end_date))
                /\ load' = AddLoad(load, candidate, turn_end_date - current_day)
                /\ current_day' = turn_end_date
                /\ result' = AfterTurn(turn_end_date)
                /\ err_day' = err_day
    /\ UNCHANGED <<inputs, assignee>>

\* preference_group of balanced: 0 (Want), 1 (neutral), 2 (NotWant)
PreferenceGroup(person, from, to) ==
    IF HasPref(person, "Want", from, to) THEN 0
    ELSE IF HasPref(person, "NotWant", from, to) THEN 2
    ELSE 1

\* ------------------------------------------------------------ f64 arithmetic
\* TimeDelta::num_seconds of one day.
SecondsPerDay == 86400

\* calculate_load_variance works in f64 (IEEE 754 binary64, round to nearest,
\* ties to even). A finite f64 is kept as [neg, m, e], the value
\* (-1)^neg * m * 2^e with m a natural number of exactly F64Bits bits, or
\* zero (m the empty number). Natural numbers are sequences of limbs of
\* LimbBits bits, least significant first, without leading zero limbs.
F64Bits == 53
LimbBits == 15
LimbBase == 2 ^ LimbBits

BigHead(a) == IF a = <<>> THEN 0 ELSE a[1]

BigTail(a) == IF a = <<>> THEN <<>> ELSE Tail(a)

RECURSIVE BigNorm(_)
BigNorm(a) ==
    IF a = <<>> THEN <<>>
    ELSE IF a[Len(a)] = 0 THEN BigNorm(SubSeq(a, 1, Len(a) - 1))
    ELSE a

RECURSIVE BigFromInt(_)
BigFromInt(k) ==
    IF k = 0 THEN <<>> ELSE <<k % LimbBase>> \o BigFromInt(k \div LimbBase)

RECURSIVE BigAddC(_, _, _)
BigAddC(a, b, c) ==
    IF a = <<>> /\ b = <<>> THEN (IF c = 0 THEN <<>> ELSE <<c>>)
    ELSE CHOOSE r \in {<<x % LimbBase>> \o BigAddC(BigTail(a), BigTail(b), x \div LimbBase) :
                          x \in {BigHead(a) + BigHead(b) + c}} : TRUE

BigAdd(a, b) == BigAddC(a, b, 0)

\* a - b for a >= b
RECURSIVE BigSubB(_, _, _)
BigSubB(a, b, borrow) ==
    IF a = <<>> THEN <<>>
    ELSE CHOOSE r \in {IF x < 0
                       THEN <<x + LimbBase>> \o BigSubB(Tail(a), BigTail(b), 1)
                       ELSE <<x>> \o BigSubB(Tail(a), BigTail(b), 0) :
                          x \in {a[1] - BigHead(b) - borrow}} : TRUE

BigSub(a, b) == BigNorm(BigSubB(a, b, 0))

RECURSIVE BigCmpFrom(_, _, _)
BigCmpFrom(a, b, i) ==
    IF i = 0 THEN 0
    ELSE IF a[i] < b[i] THEN -1
    ELSE IF a[i] > b[i] THEN 1
    ELSE BigCmpFrom(a, b, i - 1)

\* -1, 0 or 1 as a < b, a = b or a > b
BigCmp(a, b) ==
    IF Len(a) < Len(b) THEN -1
    ELSE IF Len(a) > Len(b) THEN 1
    ELSE BigCmpFrom(a, b, Len(a))

\* a * k + c for 0 <= k, c < LimbBase
RECURSIVE BigMulSmallC(_, _, _)
BigMulSmallC(a, k, c) ==
    IF a = <<>> THEN (IF c = 0 THEN <<>> ELSE <<c>>)
    ELSE CHOOSE r \in {<<x % LimbBase>> \o BigMulSmallC(Tail(a), k, x \div LimbBase) :
                          x \in {a[1] * k + c}} : TRUE

RECURSIVE BigMulU(_, _)
BigMulU(a, b) ==
    IF b = <<>> THEN <<>>
    ELSE CHOOSE r \in {BigAdd(BigMulSmallC(a, b[1], 0), <<0>> \o rest) :
                          rest \in {BigMulU(a, Tail(b))}} : TRUE

BigMul(a, b) == BigNorm(BigMulU(a, b))

\* quotient (with leading zero limbs) and remainder of a by 0 < n < LimbBase
RECURSIVE BigDivSmall(_, _)
BigDivSmall(a, n) ==
    IF a = <<>> THEN [q |-> <<>>, r |-> 0]
    ELSE CHOOSE res \in
           {[q |-> <<(hi.r * LimbBase + a[1]) \div n>> \o hi.q,
             r |-> (hi.r * LimbBase + a[1]) % n] :
               hi \in {BigDivSmall(Tail(a), n)}} : TRUE

RECURSIVE IntBitLen(_)
IntBitLen(k) == IF k = 0 THEN 0 ELSE 1 + IntBitLen(k \div 2)

BigBitLen(a) ==
    IF a = <<>> THEN 0 ELSE (Len(a) - 1) * LimbBits + IntBitLen(a[Len(a)])

\* a * 2^k
BigShl(a, k) ==
    IF a = <<>> THEN <<>>
    ELSE [i \in 1..(k \div LimbBits) |-> 0] \o BigMulSmallC(a, 2 ^ (k % LimbBits), 0)

\* a \div 2^k
BigShr(a, k) ==
    IF k \div LimbBits >= Len(a) THEN <<>>
    ELSE BigNorm(BigDivSmall(SubSeq(a, (k \div LimbBits) + 1, Len(a)),
                             2 ^ (k % LimbBits)).q)

F64Zero == [neg |-> FALSE, m |-> <<>>, e |-> 0]

\* The f64 nearest to (-1)^neg * M * 2^E, ties to the even one.
F64Round(neg, M, E) ==
    IF M = <<>> THEN F64Zero
    ELSE CHOOSE r \in
      {IF len <= F64Bits
       THEN [neg |-> neg, m |-> BigShl(M, F64Bits - len), e |-> E - (F64Bits - len)]
       ELSE CHOOSE s \in
         {CHOOSE t \in
            {IF BigBitLen(q2) > F64Bits
             THEN [neg |-> neg, m |-> BigShr(q2, 1), e |-> E + (len - F64Bits) + 1]
             ELSE [neg |-> neg, m |-> q2, e |-> E + (len - F64Bits)] :
                q2 \in {IF c > 0 \/ (c = 0 /\ q[1] % 2 = 1)
                        THEN BigAdd(q, <<1>>) ELSE q :
                           c \in {BigCmp(BigSub(M, BigShl(q, len - F64Bits)),
                                         BigShl(<<1>>, len - F64Bits - 1))}}} : TRUE :
             q \in {BigShr(M, len - F64Bits)}} : TRUE :
          len \in {BigBitLen(M)}} : TRUE

\* `as f64` of a non-negative integer
F64FromInt(k) == F64Round(FALSE, BigFromInt(k), 0)

\* a + b
F64Add(a, b) ==
    IF a.m = <<>> THEN b
    ELSE IF b.m = <<>> THEN a
    ELSE CHOOSE r \in
      {IF a.neg = b.neg THEN F64Round(a.neg, BigAdd(A, B), Min(a.e, b.e))
       ELSE IF BigCmp(A, B) = 0 THEN F64Zero
       ELSE IF BigCmp(A, B) > 0 THEN F64Round(a.neg, BigSub(A, B), Min(a.e, b.e))
       ELSE F64Round(b.neg, BigSub(B, A), Min(a.e, b.e)) :
          A \in {BigShl(a.m, a.e - Min(a.e, b.e))},
          B \in {BigShl(b.m, b.e - Min(a.e, b.e))}} : TRUE

\* a - b
F64Sub(a, b) == F64Add(a, [b EXCEPT !.neg = ~b.neg])

\* a * b
F64Mul(a, b) ==
    IF a.m = <<>> \/ b.m = <<>> THEN F64Zero
    ELSE F64Round(a.neg # b.neg, BigMul(a.m, b.m), a.e + b.e)

\* a / n for an integer 0 < n < LimbBase: the quotient is taken to
\* 4 * LimbBits further bits and a last bit that tells whether anything is
\* left, which rounds as the exact quotient does.
F64DivInt(a, n) ==
    IF a.m = <<>> THEN F64Zero
    ELSE CHOOSE r \in
      {F64Round(a.neg,
                BigAdd(BigShl(BigNorm(d.q), 1), IF d.r > 0 THEN <<1>> ELSE <<>>),
                a.e - 4 * LimbBits - 1) :
          d \in {BigDivSmall(BigShl(a.m, 4 * LimbBits), n)}} : TRUE

\* .sum::<f64>() of f[0], ..., f[k], in that order
RECURSIVE F64SumTo(_, _)
F64SumTo(f, k) ==
    IF k < 0 THEN F64Zero
    ELSE CHOOSE r \in {F64Add(s, f[k]) : s \in {F64SumTo(f, k - 1)}} : TRUE

\* calculate_load_variance, in f64
F64Variance(ld) ==
    CHOOSE v \in
      {F64DivInt(F64SumTo([i \in DOMAIN ld |->
                              CHOOSE sq \in {F64Mul(diff, diff) :
                                                diff \in {F64Sub(x[i], mean)}} : TRUE],
                          Cardinality(DOMAIN ld) - 1),
                 Cardinality(DOMAIN ld)) :
          x \in {[i \in DOMAIN ld |-> F64FromInt(ld[i] * SecondsPerDay)]},
          mean \in {F64DivInt(F64SumTo([i \in DOMAIN ld |->
                                           F64FromInt(ld[i] * SecondsPerDay)],
                                       Cardinality(DOMAIN ld) - 1),
                              Cardinality(DOMAIN ld))}} : TRUE

\* A non-negative f64 as a sequence that orders as the value does: the
\* exponent, then the limbs of m from the most significant.
F64Key(a) ==
    IF a.m = <<>> THEN <<0, 0, 0, 0, 0>>
    ELSE <<a.e + 2 ^ 11, a.m[4], a.m[3], a.m[2], a.m[1]>>

RECURSIVE SumLoad(_, _)
SumLoad(ld, k) == IF k < 0 THEN 0 ELSE ld[k] + SumLoad(ld, k - 1)

\* The integer n * sum(d^2) - sum(d)^2 for the loads d in days, n their
\* number: the variance of the loads in seconds is 86400^2 / n^2 times it.
ExactVariance(ld) ==
    LET n == Cardinality(DOMAIN ld)
        sq == [i \in DOMAIN ld |-> ld[i] * ld[i]]
    IN  n * SumLoad(sq, n - 1) - SumLoad(ld, n - 1) * SumLoad(ld, n - 1)

\* Less-than of two values of LoadVariance.
RECURSIVE VarianceLess(_, _)
VarianceLess(a, b) ==
    IF a = <<>> THEN FALSE
    ELSE IF Head(a) # Head(b) THEN Head(a) < Head(b)
    ELSE VarianceLess(Tail(a), Tail(b))

\* calculate_load_variance: the mean squared deviation from the mean of the
\* loads in seconds, computed in f64; the value is kept as a sequence that
\* VarianceLess orders as `<` orders the f64. When load.len() divides 86400
\* the f64 arithmetic is exact as long as the loads stay below 2^26 seconds:
\* the mean and every deviation are integers, the squares and their sum are
\* integers below 2^53, and the final division by n keeps the order of two
\* tables of the same roster; the value is then the one-element sequence of
\* ExactVariance. For every other roster size the f64 operations are
\* carried out one by one.
LoadVariance(ld) ==
    IF SecondsPerDay % Cardinality(DOMAIN ld) = 0 THEN <<ExactVariance(ld)>>
    ELSE F64Key(F64Variance(ld))

\* best_choice: Option<(usize, NaiveDate, i32, f64)>
Choice(i, turn_end, group, variance) ==
    [person |-> i, turn_end |-> turn_end, group |-> group, variance |-> variance]

\* best_choice = None
NoChoice == Choice(NoOne, 0, 0, <<>>)

\* Better with `<=` on the variance: the last of several equal choices wins.
Better_LastFoundWins(choice, best) ==
    \/ choice.group < best.group
    \/ choice.group = best.group /\ ~VarianceLess(best.variance, choice.variance)

\* The test that replaces the best choice: a smaller preference group, or
\* the same group and a smaller variance.
Better(choice, best) ==
    \/ choice.group < best.group
    \/ choice.group = best.group /\ VarianceLess(choice.variance, best.variance)

\* Consider that tests the OOO dates of the longest window for every turn
\* length.
Consider_LongestWindow(best, i, turn_len, last, ld, day) ==
    LET turn_end == TurnEndDate(day, turn_len)
    IN  IF ~Eligible(i, last, day, TurnEndDate(day, max_turn_days)) THEN best
        ELSE CHOOSE r \in
               {IF best = NoChoice THEN choice
                ELSE IF Better(choice, best) THEN choice
                ELSE best :
                   choice \in {Choice(i, turn_end,
                                      PreferenceGroup(people[i], day, turn_end),
                                      LoadVariance(AddLoad(ld, i, turn_end - day)))}} : TRUE

\* The body of the inner loop for one (person, turn_len). (The choice is
\* bound through a singleton set so that it is evaluated once.)
Consider(best, i, turn_len, last, ld, day) ==
    LET turn_end == TurnEndDate(day, turn_len)
    IN  IF ~Eligible(i, last, day, turn_end) THEN best
        ELSE CHOOSE r \in
               {IF best = NoChoice THEN choice
                ELSE IF Better(choice, best) THEN choice
                ELSE best :
                   choice \in {Choice(i, turn_end,
                                      PreferenceGroup(people[i], day, turn_end),
                                      LoadVariance(AddLoad(ld, i, turn_end - day)))}} : TRUE

\* TurnLenLoop that runs one turn length past max_turn_days.
RECURSIVE TurnLenLoop_OneMore(_, _, _, _, _, _)
TurnLenLoop_OneMore(best, i, turn_len, last, ld, day) ==
    IF turn_len > max_turn_days + 1 THEN best
    ELSE CHOOSE r \in {TurnLenLoop_OneMore(b, i, turn_len + 1, last, ld, day) :
                          b \in {Consider(best, i, turn_len, last, ld, day)}} : TRUE

\* The inner loop, `for turn_len in min_turn_days..=max_turn_days`, from
\* turn_len on: best_choice after it, from its value `best` before it.
RECURSIVE TurnLenLoop(_, _, _, _, _, _)
TurnLenLoop(best, i, turn_len, last, ld, day) ==
    IF turn_len > max_turn_days THEN best
    ELSE CHOOSE r \in {TurnLenLoop(b, i, turn_len + 1, last, ld, day) :
                          b \in {Consider(best, i, turn_len, last, ld, day)}} : TRUE

\* The outer loop, `for (i, person) in people.iter().enumerate()`, from
\* person i on.
RECURSIVE PeopleLoop(_, _, _, _, _)
PeopleLoop(best, i, last, ld, day) ==
    IF i >= NumPeople THEN best
    ELSE CHOOSE r \in {PeopleLoop(b, i + 1, last, ld, day) :
                          b \in {TurnLenLoop(best, i, min_turn_days, last, ld, day)}} : TRUE

\* best_choice after the two loops.
BestChoice(last, ld, day) == PeopleLoop(NoChoice, 0, last, ld, day)

\* One iteration of balanced's loop.
BalancedStep ==
    /\ algo = "Balanced"
    /\ result = "running"
    /\ \E best \in {BestChoice(last_assignee, load, current_day)} :
           IF best = NoChoice
           THEN /\ result' = "err"
                /\ err_day' = current_day
                /\ UNCHANGED <<current_day, last_assignee, load, turns>>
           ELSE /\ turns' = Append(turns, Assignment(best.person, current_day, best.turn_end))
                /\ load' = AddLoad(load, best.person, best.turn_end - current_day)
                /\ current_day' = best.turn_end
                /\ last_assignee' = best.person
                /\ result' = AfterTurn(best.turn_end)
                /\ err_day' = err_day
    /\ UNCHANGED <<inputs, assignee>>

\* ------------------------------------------------------------- the report
\* Schedule::load with `=` in the place of `+=`: the entry of a person holds
\* the length of that person's last turn.
RECURSIVE ScheduleLoad_Overwrites(_, _)
ScheduleLoad_Overwrites(ts, k) ==
    IF k = 0 THEN [p \in {} |-> 0]
    ELSE LET days == ScheduleLoad_Overwrites(ts, k - 1)
             person == ts[k].person
             length == ts[k].end - ts[k].start
         IN  [p \in DOMAIN days \cup {person} |->
                 IF p = person THEN length ELSE days[p]]

\* Schedule::load after the first k turns: the map `days`, keyed by the
\* person (here the roster index: the ids of a roster are the keys of the
\* configuration's map, so two people never share one), to which every turn
\* adds its length, an absent entry starting at zero.
RECURSIVE ScheduleLoad(_, _)
ScheduleLoad(ts, k) ==
    IF k = 0 THEN [p \in {} |-> 0]
    ELSE LET days == ScheduleLoad(ts, k - 1)
             person == ts[k].person
             length == ts[k].end - ts[k].start
         IN  [p \in DOMAIN days \cup {person} |->
                 IF p = person
                 THEN (IF p \in DOMAIN days THEN days[p] ELSE 0) + length
                 ELSE days[p]]

\* ------------------------------------------------------------ specification
\* The strategy and its parameters, as main dispatches them.
Params ==
    [algo : {"RoundRobin", "Greedy"}, len : 1..MaxTurn, min : {0}, max : {0}]
      \cup {p \in [algo : {"Balanced"}, len : {0}, min : 1..MaxTurn, max : 1..MaxTurn] :
               p.min <= p.max}

\* Validated input (a non-empty roster, from < to, positive turn lengths,
\* min_turn_days <= max_turn_days) for one of the strategies of the set A,
\* and the state before the first iteration.
StrategyInit(A) ==
    \E n \in 1..MaxPeople, s \in {1}, p \in {q \in Params : q.algo \in A} :
      \E e \in (s + 1)..(MaxDay + 1) :
        \E F \in {G \in FactPairs(n, e) : WellFormed(G)} :
          /\ people = [i \in 0..(n - 1) |-> Person(F, i)]
          /\ start = s
          /\ end = e
          /\ algo = p.algo
          /\ turn_length_days = p.len
          /\ min_turn_days = p.min
          /\ max_turn_days = p.max
          /\ initial_load = Seed(F)
          /\ current_day = s
          /\ assignee \in (IF p.algo = "RoundRobin" THEN InitialCursors(Seed(F), n) ELSE {0})
          /\ last_assignee = NoOne
          /\ load = [i \in 0..(n - 1) |->
                        IF p.algo = "RoundRobin" THEN 0 ELSE SeededLoad(Seed(F), i)]
          /\ turns = <<>>
          /\ result = "running"
          /\ err_day = 0

\* main runs the strategy that cfg.schedule.algo names.
Init == StrategyInit({"RoundRobin", "Greedy", "Balanced"})

Next ==
    \/ RoundRobinStep
    \/ GreedyStep
    \/ BalancedStep

Spec == Init /\ [][Next]_vars

\* The runs of round-robin.
RoundRobinInit == StrategyInit({"RoundRobin"})

RoundRobinSpec == RoundRobinInit /\ [][RoundRobinStep]_vars

\* The runs of greedy.
GreedyInit == StrategyInit({"Greedy"})

GreedySpec == GreedyInit /\ [][GreedyStep]_vars

\* The runs of balanced.
BalancedInit == StrategyInit({"Balanced"})

BalancedSpec == BalancedInit /\ [][BalancedStep]_vars

\* The runs of the two strategies that keep a load table.
LoadInit == StrategyInit({"Greedy", "Balanced"})

LoadNext ==
    \/ GreedyStep
    \/ BalancedStep

LoadSpec == LoadInit /\ [][LoadNext]_vars

\* The strategy and its parameters, with turn lengths up to LongTurn.
LongParams ==
    [algo : {"RoundRobin", "Greedy"}, len : 1..LongTurn, min : {0}, max : {0}]
      \cup {p \in [algo : {"Balanced"}, len : {0}, min : 1..LongTurn, max : 1..LongTurn] :
               p.min <= p.max}

\* Runs over longer windows, up to [1, LongDay + 1), of rosters without OOO
\* dates or preferences and without a seeded load.
LongRunInit ==
    \E n \in 1..MaxPeople, p \in LongParams :
      \E e \in 2..(LongDay + 1) :
          /\ people = [i \in 0..(n - 1) |-> Person({}, i)]
          /\ start = 1
          /\ end = e
          /\ algo = p.algo
          /\ turn_length_days = p.len
          /\ min_turn_days = p.min
          /\ max_turn_days = p.max
          /\ initial_load = {}
          /\ current_day = 1
          /\ assignee = 0
          /\ last_assignee = NoOne
          /\ load = [i \in 0..(n - 1) |-> 0]
          /\ turns = <<>>
          /\ result = "running"
          /\ err_day = 0

LongRunSpec == LongRunInit /\ [][Next]_vars

\* Runs of rosters of up to WideRoster people without OOO dates or
\* preferences and without a seeded load, over the windows of Init and with
\* turn lengths up to LongTurn.
WideInit ==
    \E n \in 1..WideRoster, p \in LongParams :
      \E e \in 2..(MaxDay + 1) :
          /\ people = [i \in 0..(n - 1) |-> Person({}, i)]
          /\ start = 1
          /\ end = e
          /\ algo = p.algo
          /\ turn_length_days = p.len
          /\ min_turn_days = p.min
          /\ max_turn_days = p.max
          /\ initial_load = {}
          /\ current_day = 1
          /\ assignee = 0
          /\ last_assignee = NoOne
          /\ load = [i \in 0..(n - 1) |-> 0]
          /\ turns = <<>>
          /\ result = "running"
          /\ err_day = 0

WideSpec == WideInit /\ [][Next]_vars

\* ------------------------------------------------------------- properties
\* The days of an assignment.
TurnDays(t) == t.start..(t.end - 1)

\* The index set of turns.
TurnIndexes == 1..Len(turns)

\* C1: a successful run of any strategy returns assignments that are
\* contiguous and gapless over the window: the first starts on start, each
\* ends where the next starts, and the last ends on end.
C1_ContiguousGapless ==
    result = "ok" =>
        /\ turns # <<>>
        /\ turns[1].start = start
        /\ \A k \in 1..(Len(turns) - 1) : turns[k].end = turns[k + 1].start
        /\ turns[Len(turns)].end = end

\* A successful run of several turns whose last turn is cut by the end of
\* the window.
C1_Witness ==
    /\ result = "ok"
    /\ algo = "Greedy"
    /\ Len(turns) >= 2
    /\ turns[Len(turns)].end - turns[Len(turns)].start < turn_length_days

\* The turn lengths a strategy asks for.
TurnLengths ==
    IF algo = "Balanced" THEN min_turn_days..max_turn_days ELSE {turn_length_days}

\* C2: in greedy and balanced no committed assignment contains a date of its
\* person's unavailable set, whatever the person's preferences, and no
\* assignment is a truncated turn: it ends a whole turn length after its
\* start, or on the end of the window if that comes first.
C2_NoOooInWindow ==
    algo \in {"Greedy", "Balanced"} =>
        \A k \in TurnIndexes :
           /\ TurnDays(turns[k]) \cap people[turns[k].person].ooo = {}
           /\ \E len \in TurnLengths :
                 turns[k].end = (IF turns[k].start + len < end
                                 THEN turns[k].start + len ELSE end)

\* A turn that covers a date on which another person is OOO and has a Want,
\* and that is not that person's first day of the turn.
C2_Witness ==
    /\ algo \in {"Greedy", "Balanced"}
    /\ \E k \in TurnIndexes : \E i \in DOMAIN people :
          \E d \in TurnDays(turns[k]) \cap people[i].ooo :
             /\ i # turns[k].person
             /\ d > turns[k].start
             /\ d \in DOMAIN people[i].preferences
             /\ people[i].preferences[d] = "Want"
             /\ (k > 1 => turns[k - 1].person # i)

\* C3: in round-robin no assignment contains a date of its person's
\* unavailable set: the turn is cut at the assignee's first OOO day.
C3_RoundRobinCutAtOoo ==
    algo = "RoundRobin" =>
        \A k \in TurnIndexes : TurnDays(turns[k]) \cap people[turns[k].person].ooo = {}

\* A round-robin turn that is shorter than the turn length and ends, before
\* the end of the window, on a day its person is OOO.
C3_Witness ==
    /\ algo = "RoundRobin"
    /\ \E k \in TurnIndexes :
          /\ turns[k].end - turns[k].start < turn_length_days
          /\ turns[k].end < end
          /\ turns[k].end \in people[turns[k].person].ooo

\* C4: in greedy and balanced two consecutive assignments never have the
\* same person.
C4_NoImmediateRepeat ==
    algo \in {"Greedy", "Balanced"} =>
        \A k \in 1..(Len(turns) - 1) : turns[k].person # turns[k + 1].person

\* A second turn given to somebody else although the first assignee was
\* free and still had the strictly lowest load when it was chosen.
C4_Witness ==
    /\ algo \in {"Greedy", "Balanced"}
    /\ Len(turns) = 2
    /\ TurnDays(turns[2]) \cap people[turns[1].person].ooo = {}
    /\ \A i \in DOMAIN people \ {turns[1].person} :
          load[turns[1].person] < load[i] - (IF i = turns[2].person
                                             THEN turns[2].end - turns[2].start
                                             ELSE 0)

\* Every person of the roster is OOO on the first day of the window.
AllOooOnStart == \A i \in DOMAIN people : start \in people[i].ooo

\* C5: if every person is OOO on the first day of the window, each strategy
\* fails at its first step with NoOneAvailable(scheduleStart) and commits
\* no assignment.
C5_AllOooFailsOnStart ==
    AllOooOnStart =>
        /\ turns = <<>>
        /\ result # "ok"
        /\ result = "running" => (current_day = start /\ ENABLED Next)
        /\ result = "err" => err_day = start

\* The failure of a run on a roster of three people who are all OOO on the
\* first day.
C5_Witness ==
    /\ AllOooOnStart
    /\ NumPeople = 3
    /\ algo = "RoundRobin"
    /\ result = "err"

\* The run has returned.
Returned == result \in {"ok", "err"}

\* The day a run has reached after its committed turns.
DayReached == IF turns = <<>> THEN start ELSE turns[Len(turns)].end

\* A run that has not returned can take its next step: no step blocks.
\* (ENABLED is costly for TLC; this is checked on its own.)
NeverStuck == result = "running" => ENABLED Next

\* C6: on validated input every strategy terminates. A run that has not
\* returned is before the end of the window; a run that has returned takes
\* no further step; every committed turn began
\* on the day the run had reached and ended strictly later, which is the
\* current day after it; a failure is raised on the current day, with
\* nothing more committed; success is returned on the end of the window. So
\* the current day strictly increases with every committed turn, never
\* passes the end, and the run returns after at most end - start turns.
C6_Terminates ==
    /\ result = "running" => current_day < end
    /\ Returned => ~ENABLED Next
    /\ \A k \in TurnIndexes :
          /\ turns[k].start = (IF k = 1 THEN start ELSE turns[k - 1].end)
          /\ turns[k].start < turns[k].end
    /\ current_day = DayReached
    /\ current_day <= end
    /\ Len(turns) <= current_day - start
    /\ result = "ok" => current_day = end
    /\ result = "err" => err_day = current_day /\ current_day < end

\* A run that returns after as many turns as the window has days.
C6_Witness ==
    /\ Returned
    /\ Len(turns) = end - start
    /\ Len(turns) >= 3

\* C7: every assignment emitted by any strategy has start < end, and its
\* person is an index of the roster.
C7_AssignmentWellFormed ==
    \A k \in TurnIndexes :
        /\ turns[k].start < turns[k].end
        /\ turns[k].person \in 0..(NumPeople - 1)

\* A one-day assignment of a strategy whose shortest turn length is two
\* days, given to the last person of a roster of three.
C7_Witness ==
    /\ algo = "Balanced"
    /\ min_turn_days = 2
    /\ NumPeople = 3
    /\ \E k \in TurnIndexes :
          /\ turns[k].end - turns[k].start = 1
          /\ turns[k].person = 2

\* No person has an OOO date or a preference, and no load is seeded.
NoFacts ==
    /\ initial_load = {}
    /\ \A i \in DOMAIN people :
          people[i].ooo = {} /\ DOMAIN people[i].preferences = {}

\* The total assigned days of person i.
RECURSIVE TotalDays(_, _)
TotalDays(i, k) ==
    IF k = 0 THEN 0
    ELSE TotalDays(i, k - 1)
           + (IF turns[k].person = i THEN turns[k].end - turns[k].start ELSE 0)

\* C8: with no preferences, no OOO dates and no seeded load, over a window
\* whose length is a multiple of the turn length, the schedule returned by
\* round-robin and by greedy gives any two people totals that differ by at
\* most one turn length.
C8_Fairness ==
    (/\ algo \in {"RoundRobin", "Greedy"}
     /\ NoFacts
     /\ (end - start) % turn_length_days = 0
     /\ result = "ok")
    => \A i \in DOMAIN people, j \in DOMAIN people :
          TotalDays(i, Len(turns)) - TotalDays(j, Len(turns)) <= turn_length_days

\* A greedy schedule of four turns over three people, whose totals are not
\* all equal.
C8_Witness ==
    /\ algo = "Greedy"
    /\ NoFacts
    /\ (end - start) % turn_length_days = 0
    /\ result = "ok"
    /\ NumPeople = 3
    /\ Len(turns) = 4
    /\ TotalDays(0, 4) = TotalDays(2, 4) + turn_length_days

\* The priority of person i's window W: 0 if i has a Want day in W, else 2
\* if i has a NotWant day in W, else 1.
WindowRank(i, W) ==
    IF \E d \in W \cap DOMAIN people[i].preferences : people[i].preferences[d] = "Want"
    THEN 0
    ELSE IF \E d \in W \cap DOMAIN people[i].preferences : people[i].preferences[d] = "NotWant"
    THEN 2
    ELSE 1

\* The days [day, min(end, day + len)).
Window(day, len) == {d \in day..(day + len - 1) : d < end}

\* The people who can take the window W after `last`.
EligibleFor(W, last) == {i \in DOMAIN people : i # last /\ W \cap people[i].ooo = {}}

\* The assignee of the turn before turn k.
LastBefore(k) == IF k = 1 THEN NoOne ELSE turns[k - 1].person

\* Scenario B: Alice, Bob and Charlie, Bob has NotWant on day 3, the window
\* is [1, 5) and turns are 2 days long.
ScenarioB ==
    /\ algo = "Greedy"
    /\ NumPeople = 3
    /\ start = 1 /\ end = 5
    /\ turn_length_days = 2
    /\ initial_load = {}
    /\ \A i \in DOMAIN people : people[i].ooo = {}
    /\ DOMAIN people[0].preferences = {}
    /\ DOMAIN people[2].preferences = {}
    /\ DOMAIN people[1].preferences = {3}
    /\ people[1].preferences[3] = "NotWant"

\* C9: every turn of greedy went to a person of the highest-priority
\* non-empty bucket (Want, then Neutral, then NotWant) among the people who
\* were eligible for its window, whatever their loads and roster positions;
\* in scenario B the schedule is Alice [1,3), Charlie [3,5).
C9_GreedyPreferencePriority ==
    /\ algo = "Greedy" =>
          \A k \in TurnIndexes :
             LET W == Window(turns[k].start, turn_length_days)
                 E == EligibleFor(W, LastBefore(k))
             IN  /\ turns[k].person \in E
                 /\ \A j \in E : WindowRank(turns[k].person, W) <= WindowRank(j, W)
    /\ (ScenarioB /\ Returned) =>
          /\ result = "ok"
          /\ turns = <<Assignment(0, 1, 3), Assignment(2, 3, 5)>>

\* Scenario B has returned.
C9_Witness == ScenarioB /\ Returned

\* The sum of f over the set S.
RECURSIVE SumOver(_, _)
SumOver(f, S) ==
    IF S = {} THEN 0
    ELSE LET x == CHOOSE y \in S : TRUE
         IN  f[x] + SumOver(f, S \ {x})

\* The population variance of a load table over n people, times n^3: the
\* sum over the people of (n * load - total)^2.
PopulationVariance(ld) ==
    LET n == Cardinality(DOMAIN ld)
        total == SumOver(ld, DOMAIN ld)
        dev == [i \in DOMAIN ld |-> (n * ld[i] - total) * (n * ld[i] - total)]
    IN  SumOver(dev, DOMAIN ld)

\* The valid (person, turn length) pairs of a balanced step on `day` after
\* `last`.
ValidPairs(day, last) ==
    {p \in (DOMAIN people) \X (min_turn_days..max_turn_days) :
        p[1] \in EligibleFor(Window(day, p[2]), last)}

\* The end of the window of pair p.
WindowEnd(day, p) == IF day + p[2] < end THEN day + p[2] ELSE end

\* The variance of the load table `ld` after pair p's window is added to
\* p's person.
PostVariance(ld, day, p) ==
    PopulationVariance([ld EXCEPT ![p[1]] = @ + (WindowEnd(day, p) - day)])

\* The valid pairs of a step with their keys: <<person, turn length,
\* preference ordinal, variance after the assignment>>.
KeyedPairs(ld, day, last) ==
    {<<p[1], p[2], WindowRank(p[1], Window(day, p[2])), PostVariance(ld, day, p)>> :
        p \in ValidPairs(day, last)}

\* Keyed pair a is at or before keyed pair b in the order (preference
\* ordinal, variance after the assignment, roster index, turn length).
LexAtMost(a, b) ==
    \/ a[3] < b[3]
    \/ a[3] = b[3] /\ a[4] < b[4]
    \/ a[3] = b[3] /\ a[4] = b[4] /\ a[1] < b[1]
    \/ a[3] = b[3] /\ a[4] = b[4] /\ a[1] = b[1] /\ a[2] <= b[2]

\* C10: every step of balanced that commits a turn commits the window of
\* the valid pair that is least in the order (preference ordinal, variance
\* of the load table after the assignment, roster index, turn length).
C10_BalancedLexMin ==
    [][(algo = "Balanced" /\ result = "running" /\ result' # "err") =>
         \E K \in {KeyedPairs(load, current_day, last_assignee)} :
            \E a \in K :
               /\ \A b \in K : LexAtMost(a, b)
               /\ turns' = Append(turns, Assignment(a[1], current_day,
                                                    WindowEnd(current_day, a)))
               /\ last_assignee' = a[1]]_vars

\* The load table before the first step.
SeededLoads == [i \in DOMAIN people |-> SeededLoad(initial_load, i)]

\* A first turn of balanced given to a person with a Want in its window
\* although another valid pair, with a worse preference ordinal, had a
\* strictly smaller variance after the assignment.
C10_Witness ==
    /\ algo = "Balanced"
    /\ Len(turns) = 1
    /\ \E p \in ValidPairs(start, NoOne), q \in ValidPairs(start, NoOne) :
          /\ p[1] = turns[1].person
          /\ WindowEnd(start, p) = turns[1].end
          /\ WindowRank(p[1], Window(start, p[2])) < WindowRank(q[1], Window(start, q[2]))
          /\ PostVariance(SeededLoads, start, q) < PostVariance(SeededLoads, start, p)

\* C11: with two people, no OOO dates, no preferences and no seeded load,
\* greedy with turn length L gives the k-th turn to roster index (k - 1) mod 2
\* over [start + (k - 1) L, min(end, start + k L)); over the window [1, 11)
\* with L = 3 the schedule is Alice [1,4), Bob [4,7), Alice [7,10),
\* Bob [10,11): Alice 6 days and Bob 4 days.
C11_GreedyAlternates ==
    (algo = "Greedy" /\ NumPeople = 2 /\ NoFacts) =>
        /\ \A k \in TurnIndexes :
              turns[k] = Assignment((k - 1) % 2,
                                    start + (k - 1) * turn_length_days,
                                    Min(end, start + k * turn_length_days))
        /\ (start = 1 /\ end = 11 /\ turn_length_days = 3 /\ Returned) =>
              /\ result = "ok"
              /\ turns = <<Assignment(0, 1, 4), Assignment(1, 4, 7),
                           Assignment(0, 7, 10), Assignment(1, 10, 11)>>
              /\ TotalDays(0, Len(turns)) = 6
              /\ TotalDays(1, Len(turns)) = 4

\* The run over [1, 11) with 3-day turns and two people has returned.
C11_Witness ==
    /\ algo = "Greedy" /\ NumPeople = 2 /\ NoFacts
    /\ start = 1 /\ end = 11 /\ turn_length_days = 3
    /\ Returned
    /\ Len(turns) = 4

\* The days the seeded table carries for roster index i: the value of the
\* entry for i, and zero when there is none.
CarriedLoad(i) ==
    LET S == {e[2] : e \in {x \in initial_load : x[1] = i}}
    IN  IF S = {} THEN 0 ELSE CHOOSE d \in S : TRUE

\* The load of person i when turn k was chosen: carried and accrued.
LoadBefore(i, k) == CarriedLoad(i) + TotalDays(i, k - 1)

\* No person has an OOO date or a preference.
NoOooNoPrefs ==
    \A i \in DOMAIN people :
        people[i].ooo = {} /\ DOMAIN people[i].preferences = {}

\* C12: in greedy and balanced the load table holds, for the people of the
\* roster and for nobody else, the seeded days of their id (zero without an
\* entry) plus the days assigned so far; with no OOO dates and no
\* preferences every turn went to a person whose load, carried and accrued
\* alike, was the least among the people other than the last assignee, so
\* with two people, one seeded with a positive load and the other with
\* none, the first turn goes to the other, whatever the roster order.
C12_Carryover ==
    algo \in {"Greedy", "Balanced"} =>
        /\ DOMAIN load = DOMAIN people
        /\ \A i \in DOMAIN people :
              load[i] = CarriedLoad(i) + TotalDays(i, Len(turns))
        /\ NoOooNoPrefs =>
              /\ \A k \in TurnIndexes :
                    \A j \in DOMAIN people \ {LastBefore(k)} :
                       LoadBefore(turns[k].person, k) <= LoadBefore(j, k)
              /\ \A a \in DOMAIN people, b \in DOMAIN people :
                    (/\ NumPeople = 2
                     /\ CarriedLoad(a) = 0
                     /\ CarriedLoad(b) > 0
                     /\ turns # <<>>) => turns[1].person = a

\* Bob, first in a roster of three, is seeded with the largest load; Alice,
\* second, gets the first turn and, with a load still below Bob's, the third.
C12_Witness ==
    /\ algo \in {"Greedy", "Balanced"}
    /\ NumPeople = 3
    /\ NoOooNoPrefs
    /\ CarriedLoad(0) = MaxSeed
    /\ Len(turns) >= 3
    /\ turns[1].person = 1
    /\ turns[3].person = 1
    /\ 0 < LoadBefore(1, 3)
    /\ LoadBefore(1, 3) < LoadBefore(0, 3)

\* The entries of the seeded table that hold its maximum load.
SeedMaxima == {e \in initial_load : \A y \in initial_load : y[2] <= e[2]}

\* The first person, in roster order circularly from position c, who is
\* not OOO on day d; NoOne if everybody is.
FirstFree(c, d) ==
    LET free == {k \in 0..(NumPeople - 1) : d \notin people[(c + k) % NumPeople].ooo}
    IN  IF free = {} THEN NoOne
        ELSE (c + (CHOOSE k \in free : \A m \in free : k <= m)) % NumPeople

\* Round-robin has not taken its first step.
RRAtStart == algo = "RoundRobin" /\ turns = <<>> /\ result = "running"

\* C13 as stated: with a non-empty seeded table the initial cursor of
\* round-robin is the position after a person of the roster whose id holds
\* the maximum seeded load.
C13_Original ==
    (RRAtStart /\ initial_load # {}) =>
        \E e \in SeedMaxima :
            e[1] \in DOMAIN people /\ assignee = (e[1] + 1) % NumPeople

\* The cursors C13 allows: the position after a holder of the maximum who
\* is in the roster, and 0 for a holder who is not.
CarryoverCursors ==
    {IF e[1] \in DOMAIN people THEN (e[1] + 1) % NumPeople ELSE 0 : e \in SeedMaxima}

\* C13, amended: with a non-empty seeded table the initial cursor of
\* round-robin is the position after the person whose id holds the maximum
\* seeded load when that id is in the roster (any one of them when several
\* ids hold the maximum), and position 0 when the id that holds the maximum
\* is not in the roster; the first turn goes to the first person, scanning
\* from that position, who is not OOO on the first day.
C13_CursorCarryover ==
    (algo = "RoundRobin" /\ initial_load # {}) =>
        /\ RRAtStart => assignee \in CarryoverCursors
        /\ turns # <<>> =>
              \E c \in CarryoverCursors : turns[1].person = FirstFree(c, start)
        /\ (turns = <<>> /\ result = "err") => AllOooOnStart

\* The second of three people holds the maximum, the third is OOO on the
\* first day, and the first turn has gone to the first.
C13_Witness ==
    /\ algo = "RoundRobin"
    /\ NumPeople = 3
    /\ initial_load = {<<1, MaxSeed>>}
    /\ start \in people[2].ooo
    /\ turns # <<>>
    /\ turns[1].person = 0

\* C14 as stated: every completed round-robin turn leaves the cursor at +1
\* mod the roster size from the value it had when the turn's scan began,
\* whoever the scan assigned.
C14_Original ==
    [][(algo = "RoundRobin" /\ turns' # turns) =>
          assignee' = (assignee + 1) % NumPeople]_vars

\* C14, amended: after every completed round-robin turn the cursor is the
\* position after the person the scan assigned (that person's index + 1 mod
\* the roster size); it is +1 from the value it had when the scan began
\* only if the scan skipped nobody.
C14_CursorFollowsAssignee ==
    (algo = "RoundRobin" /\ turns # <<>>) =>
        assignee = (turns[Len(turns)].person + 1) % NumPeople

\* A first turn, from cursor 0 over three people, that skipped the first
\* person: the cursor is then 2, not 1.
C14_Witness ==
    /\ algo = "RoundRobin"
    /\ NumPeople = 3
    /\ initial_load = {}
    /\ Len(turns) = 1
    /\ turns[1].person = 1
    /\ assignee = 2

\* Alice and Bob, Alice OOO on day 1 only, 2-day turns over [1, 5), no seed.
AliceOooOnDayOne ==
    /\ algo = "RoundRobin"
    /\ NumPeople = 2
    /\ start = 1 /\ end = 5
    /\ turn_length_days = 2
    /\ initial_load = {}
    /\ people[0].ooo = {1}
    /\ people[1].ooo = {}

\* C15: in round-robin every turn after the first went to the first person,
\* scanning from the position after the previous assignee, who is not OOO
\* on the turn's first day; with Alice OOO on day 1 only, 2-day turns and a
\* 4-day window, Bob gets the first turn and Alice the second.
C15_NextAfterAssignee ==
    algo = "RoundRobin" =>
        /\ \A k \in 2..Len(turns) :
              turns[k].person =
                 FirstFree((turns[k - 1].person + 1) % NumPeople, turns[k].start)
        /\ (AliceOooOnDayOne /\ Returned) =>
              /\ result = "ok"
              /\ turns = <<Assignment(1, 1, 3), Assignment(0, 3, 5)>>

\* The run of Alice and Bob has returned.
C15_Witness == AliceOooOnDayOne /\ Returned /\ Len(turns) = 2

\* C16: with one person in the roster greedy and balanced commit at most
\* one turn. The first step fails only if the person is OOO in the window
\* of every turn length the strategy asks for; a committed first turn that
\* ends before the end of the window is followed by a step, and that step
\* fails with NoOneAvailable on the day the turn ended; the run succeeds
\* only with the single turn [start, end).
C16_SinglePerson ==
    (NumPeople = 1 /\ algo \in {"Greedy", "Balanced"}) =>
        /\ Len(turns) <= 1
        /\ (turns = <<>> /\ result = "err") =>
              /\ err_day = start
              /\ \A len \in TurnLengths : Window(start, len) \cap people[0].ooo # {}
        /\ (turns = <<>> /\ result = "running") => current_day = start
        /\ turns # <<>> =>
              /\ turns[1].person = 0
              /\ turns[1].start = start
              /\ TurnDays(turns[1]) \cap people[0].ooo = {}
              /\ result = "running" => (turns[1].end < end /\ ENABLED Next)
              /\ result = "err" => (err_day = turns[1].end /\ turns[1].end < end)
              /\ result = "ok" => turns[1].end = end

\* A lone person was given the first turn and the next step failed on a
\* day the person is not OOO.
C16_Witness ==
    /\ NumPeople = 1
    /\ algo \in {"Greedy", "Balanced"}
    /\ Len(turns) = 1
    /\ result = "err"
    /\ err_day = turns[1].end
    /\ people[0].ooo = {}

\* C17: greedy returns NoOneAvailable(d) exactly when, at the step on day d,
\* every person is the last assignee or is OOO on some day of
\* [d, min(end, d + turn_length_days)): a failed run failed on the day it had
\* reached (the start of the window or the end of the last committed turn)
\* with nobody eligible for that window, and every committed turn was
\* chosen on a day somebody was eligible for its window.
C17_GreedyFailsIffNoneEligible ==
    algo = "Greedy" =>
        /\ result = "err" =>
              /\ err_day = DayReached
              /\ EligibleFor(Window(err_day, turn_length_days),
                             LastBefore(Len(turns) + 1)) = {}
        /\ \A k \in TurnIndexes :
              EligibleFor(Window(turns[k].start, turn_length_days), LastBefore(k)) # {}

\* A failure of greedy on a day on which a person other than the last
\* assignee is not OOO: that person is OOO later in the window.
C17_Witness ==
    /\ algo = "Greedy"
    /\ result = "err"
    /\ turns # <<>>
    /\ \E i \in DOMAIN people :
          /\ i # turns[Len(turns)].person
          /\ err_day \notin people[i].ooo

\* The lengths of the committed turns, by position.
TurnLength == [k \in TurnIndexes |-> turns[k].end - turns[k].start]

\* The positions of the turns of person p.
TurnsOf(p) == {k \in TurnIndexes : turns[k].person = p}

\* C18: for a schedule returned by any strategy, the load report has an
\* entry exactly for the people with at least one assignment, the entry of
\* a person is the sum of end - start over that person's assignments, and
\* the entries add up to the length of the window.
C18_LoadReport ==
    result = "ok" =>
        LET days == ScheduleLoad(turns, Len(turns))
        IN  /\ DOMAIN days = {turns[k].person : k \in TurnIndexes}
            /\ \A p \in DOMAIN days : days[p] = SumOver(TurnLength, TurnsOf(p))
            /\ SumOver(days, DOMAIN days) = end - start

\* A returned schedule over three people in which one person has two turns
\* of different lengths and another has none.
C18_Witness ==
    /\ result = "ok"
    /\ NumPeople = 3
    /\ \E p \in DOMAIN people : TurnsOf(p) = {}
    /\ \E p \in DOMAIN people :
          \E j \in TurnsOf(p), k \in TurnsOf(p) : TurnLength[j] < TurnLength[k]

\* C19: a round-robin step on day d gives the turn, starting on d, to the
\* first person, scanning circularly from the cursor, who is not OOO on d;
\* it fails, with NoOneAvailable(d) and nothing committed, if and only if
\* every person of the roster is OOO on d.
C19_RoundRobinScan ==
    [][(algo = "RoundRobin" /\ result = "running") =>
          IF \A i \in DOMAIN people : current_day \in people[i].ooo
          THEN /\ result' = "err"
               /\ err_day' = current_day
               /\ turns' = turns
          ELSE /\ result' # "err"
               /\ Len(turns') = Len(turns) + 1
               /\ turns'[Len(turns')].person = FirstFree(assignee, current_day)
               /\ turns'[Len(turns')].start = current_day]_vars

\* A first turn, from cursor 0 over three people, given to the third
\* because the first two are OOO on the first day.
C19_Witness ==
    /\ algo = "RoundRobin"
    /\ NumPeople = 3
    /\ initial_load = {}
    /\ start \in people[0].ooo
    /\ start \in people[1].ooo
    /\ turns # <<>>
    /\ turns[1].person = 2

\* C20: every round-robin assignment is between 1 and turn_length_days
\* days long, and one that is shorter than turn_length_days ends on the end
\* of the window or on a day its person is OOO.
C20_RoundRobinTurnLength ==
    algo = "RoundRobin" =>
        \A k \in TurnIndexes :
            /\ 1 <= turns[k].end - turns[k].start
            /\ turns[k].end - turns[k].start <= turn_length_days
            /\ turns[k].end - turns[k].start < turn_length_days =>
                  \/ turns[k].end = end
                  \/ turns[k].end \in people[turns[k].person].ooo

\* A round-robin schedule with a turn cut short by its person's OOO day, a
\* turn of full length, and a last turn cut short by the end of the window
\* on a day its person is not OOO.
C20_Witness ==
    /\ algo = "RoundRobin"
    /\ result = "ok"
    /\ turn_length_days = 2
    /\ Len(turns) >= 3
    /\ \E k \in TurnIndexes :
          /\ turns[k].end - turns[k].start = 1
          /\ turns[k].end < end
    /\ \E k \in TurnIndexes : turns[k].end - turns[k].start = 2
    /\ turns[Len(turns)].end - turns[Len(turns)].start = 1
    /\ end \notin people[turns[Len(turns)].person].ooo

\* C21: every turn of greedy went, among the eligible people of the bucket
\* it was chosen from, to one with the lowest load (seeded plus assigned so
\* far), and among those with that lowest load to the one with the smallest
\* roster index.
C21_GreedyLeastLoadFirstIndex ==
    algo = "Greedy" =>
        \A k \in TurnIndexes :
            LET W == Window(turns[k].start, turn_length_days)
                p == turns[k].person
            IN  \A j \in EligibleFor(W, LastBefore(k)) :
                    WindowRank(j, W) = WindowRank(p, W) =>
                        \/ LoadBefore(p, k) < LoadBefore(j, k)
                        \/ LoadBefore(p, k) = LoadBefore(j, k) /\ p <= j

\* A first turn of greedy over three people without OOO dates or
\* preferences: the first person carries a load, the other two none, and
\* the turn went to the second.
C21_Witness ==
    /\ algo = "Greedy"
    /\ NumPeople = 3
    /\ NoOooNoPrefs
    /\ CarriedLoad(0) > 0
    /\ CarriedLoad(1) = 0
    /\ CarriedLoad(2) = 0
    /\ turns # <<>>
    /\ turns[1].person = 1

\* Person i has the preference pref on some day of [from, to).
PrefIn(i, pref, from, to) ==
    \E d \in DOMAIN people[i].preferences :
        from <= d /\ d < to /\ people[i].preferences[d] = pref

\* C22: in greedy and balanced the window [current_day, to) of an eligible
\* candidate is classified Want (ordinal 0) if the candidate has a Want on a
\* day of it, also when another day of it has a NotWant; NotWant (ordinal 2)
\* if a day of it has a NotWant and none a Want; Neutral (ordinal 1)
\* otherwise. The class is thus a function of the preferences on the days
\* of the window alone (PrefIn reads no other day): preferences outside it
\* have no effect. The turn just committed went to a person of the best
\* class among the people eligible for its window.
C22_WindowClassification ==
    algo \in {"Greedy", "Balanced"} =>
        /\ result = "running" =>
              \A len \in TurnLengths :
                 \E to \in {Min(end, current_day + len)} :
                   \A i \in EligibleFor(current_day..(to - 1), last_assignee) :
                      \E want \in {PrefIn(i, "Want", current_day, to)},
                         not_want \in {PrefIn(i, "NotWant", current_day, to)} :
                         /\ PreferenceBucket(people[i], current_day, to)
                               = (IF want THEN "Want"
                                  ELSE IF not_want THEN "NotWant" ELSE "Neutral")
                         /\ PreferenceGroup(people[i], current_day, to)
                               = (IF want THEN 0 ELSE IF not_want THEN 2 ELSE 1)
        /\ \A k \in {Len(turns)} \ {0} :
              \E rank \in {WindowRank(turns[k].person, TurnDays(turns[k]))} :
                 \A j \in EligibleFor(TurnDays(turns[k]), LastBefore(k)) :
                    rank <= WindowRank(j, TurnDays(turns[k]))

\* A first turn of two days given to the second of two people, who has a
\* NotWant on its first day and a Want on its second, before the first
\* person, who has no preference.
C22_Witness ==
    /\ algo \in {"Greedy", "Balanced"}
    /\ NumPeople = 2
    /\ initial_load = {}
    /\ DOMAIN people[0].preferences = {}
    /\ DOMAIN people[1].preferences = {1, 2}
    /\ people[1].preferences[1] = "NotWant"
    /\ people[1].preferences[2] = "Want"
    /\ turns # <<>>
    /\ turns[1] = Assignment(1, 1, 3)

\* C23: greedy never truncates: every committed assignment is the whole
\* window [day, min(end, day + turn_length_days)), so every assignment but
\* the last is exactly turn_length_days long and the last is at most that.
C23_GreedyNoTruncation ==
    algo = "Greedy" =>
        \A k \in TurnIndexes :
            /\ turns[k].end = (IF turns[k].start + turn_length_days < end
                               THEN turns[k].start + turn_length_days ELSE end)
            /\ k < Len(turns) => turns[k].end - turns[k].start = turn_length_days
            /\ turns[k].end - turns[k].start <= turn_length_days

\* A first turn of two days given to the second person because the first
\* is OOO on its second day only, followed by a last turn of one day.
C23_Witness ==
    /\ algo = "Greedy"
    /\ turn_length_days = 2
    /\ people[0].ooo = {2}
    /\ result = "ok"
    /\ Len(turns) = 2
    /\ turns[1] = Assignment(1, 1, 3)
    /\ turns[2] = Assignment(0, 3, 4)

\* C24: every balanced assignment is at most max_turn_days long; one that
\* ends before the end of the window is at least min_turn_days long; only
\* the last assignment, ending on the end of the window, may be shorter
\* than min_turn_days.
C24_BalancedTurnLength ==
    algo = "Balanced" =>
        \A k \in TurnIndexes :
            /\ turns[k].end - turns[k].start <= max_turn_days
            /\ turns[k].end < end => min_turn_days <= turns[k].end - turns[k].start
            /\ turns[k].end - turns[k].start < min_turn_days =>
                  (k = Len(turns) /\ turns[k].end = end)

\* A returned balanced schedule with turns of at least two days whose last
\* turn is one day long.
C24_Witness ==
    /\ algo = "Balanced"
    /\ min_turn_days = 2
    /\ result = "ok"
    /\ Len(turns) >= 2
    /\ turns[1].end - turns[1].start = 2
    /\ turns[Len(turns)].end - turns[Len(turns)].start = 1

\* C25: balanced returns NoOneAvailable(d) exactly when, at the step on day
\* d, every person other than the last assignee is OOO on some day of the
\* shortest window [d, min(end, d + min_turn_days)): a failed run failed on
\* the day it had reached with nobody eligible for that window, and every
\* committed turn was chosen on a day somebody was eligible for it, also
\* when that person was OOO in every longer window.
C25_BalancedFailsIffNoneEligible ==
    algo = "Balanced" =>
        /\ result = "err" =>
              /\ err_day = DayReached
              /\ EligibleFor(Window(err_day, min_turn_days),
                             LastBefore(Len(turns) + 1)) = {}
        /\ \A k \in TurnIndexes :
              EligibleFor(Window(turns[k].start, min_turn_days), LastBefore(k)) # {}

\* A first turn of one day given to the second of two people, who is OOO
\* on the second day, while the first is OOO on the first day: the only
\* valid pair is the shortest window of the second person.
C25_Witness ==
    /\ algo = "Balanced"
    /\ NumPeople = 2
    /\ min_turn_days = 1
    /\ max_turn_days = 2
    /\ people[0].ooo = {1}
    /\ people[1].ooo = {2}
    /\ turns # <<>>
    /\ turns[1] = Assignment(1, 1, 2)

\* C26: round-robin gives two consecutive assignments to the same person
\* only when every other person of the roster is OOO on the first day of
\* the second; when somebody else is not OOO on that day the turn goes to
\* a different person.
C26_RoundRobinRepeatOnlyIfAlone ==
    algo = "RoundRobin" =>
        \A k \in 2..Len(turns) :
            turns[k].person = turns[k - 1].person =>
                \A j \in DOMAIN people \ {turns[k].person} :
                    turns[k].start \in people[j].ooo

\* Two consecutive turns of the first of three people: the other two are
\* OOO on the first day of the second turn.
C26_Witness ==
    /\ algo = "RoundRobin"
    /\ NumPeople = 3
    /\ Len(turns) >= 2
    /\ turns[1].person = 0
    /\ turns[2].person = 0
    /\ turns[2].start \in people[1].ooo \cap people[2].ooo

\* The seeded days of the people of the roster.
CarriedLoads == [i \in DOMAIN people |-> CarriedLoad(i)]

\* C27: in greedy and balanced a step that commits an assignment changes
\* the load of its person by exactly end - start and no other load, a step
\* that fails changes none, and after every step the loads add up to the
\* seeded loads of the roster plus current_day - start.
C27_LoadTableInvariant ==
    [][(algo \in {"Greedy", "Balanced"}) =>
          ((IF turns' # turns
            THEN load' = [load EXCEPT ![turns'[Len(turns')].person] =
                             @ + (turns'[Len(turns')].end - turns'[Len(turns')].start)]
            ELSE load' = load)
           /\ (SumOver(load', DOMAIN people)
                 = SumOver(CarriedLoads, DOMAIN people) + (current_day' - start)))]_vars

\* A balanced run over three seeded people after two turns of different
\* people, each of whom now holds more than the seeded load.
C27_Witness ==
    /\ algo = "Balanced"
    /\ NumPeople = 3
    /\ initial_load # {}
    /\ \E i \in DOMAIN people : CarriedLoad(i) > 0
    /\ Len(turns) = 2
    /\ load[turns[1].person] > CarriedLoad(turns[1].person)
    /\ load[turns[2].person] > CarriedLoad(turns[2].person)
    /\ \E i \in DOMAIN people : load[i] = CarriedLoad(i)

\* The schedule that hands consecutive windows of len days to the people
\* of the roster in cyclic order from the first, after k turns.
CyclicTurn(k, len) ==
    Assignment((k - 1) % NumPeople,
               start + (k - 1) * len,
               Min(end, start + k * len))

\* C28: with no OOO dates, no preferences, no seeded load and at least two
\* people, greedy and round-robin with the same turn length return the
\* same assignments for the same roster and window: the run of either is,
\* turn for turn, the schedule that depends on the roster size, the window
\* and the turn length only, and it succeeds.
C28_GreedyEqualsRoundRobin ==
    (algo \in {"Greedy", "RoundRobin"} /\ NoFacts /\ NumPeople >= 2) =>
        /\ \A k \in TurnIndexes : turns[k] = CyclicTurn(k, turn_length_days)
        /\ result # "err"
        /\ result = "ok" => turns[Len(turns)].end = end

\* A returned greedy schedule of three people with more turns than people
\* and a last turn cut by the end of the window.
C28_Witness ==
    /\ algo = "Greedy"
    /\ NoFacts
    /\ NumPeople = 3
    /\ result = "ok"
    /\ Len(turns) >= 4
    /\ turns[Len(turns)].end - turns[Len(turns)].start < turn_length_days

\* C29: balanced with min_turn_days = max_turn_days = L returns what greedy
\* with turn_length_days = L returns on the same roster, window and seeded
\* load. The two strategies keep the same state (current_day, last_assignee,
\* load), so this is: every iteration of such a balanced run commits the
\* person greedy selects in that state for the window of L days, and fails
\* where greedy's selection finds nobody.
C29_BalancedEqualsGreedy ==
    [][(algo = "Balanced" /\ min_turn_days = max_turn_days /\ result = "running"
          /\ current_day < end) =>
         \E turn_end \in {TurnEndDate(current_day, min_turn_days)} :
           \E c \in {GreedyCandidate(last_assignee, load, current_day, turn_end)} :
              IF c = NoOne
              THEN result' = "err" /\ err_day' = current_day /\ turns' = turns
              ELSE /\ turns' = Append(turns, Assignment(c, current_day, turn_end))
                   /\ result' # "err"]_vars

\* The OOO dates of the roster, without the preferences.
OooOnly == [i \in DOMAIN people |-> people[i].ooo]

\* The first position, circularly from c, whose OOO dates O do not hold d;
\* NoOne if all do.
OooScan(O, c, d) ==
    LET n == Cardinality(DOMAIN O)
        free == {k \in 0..(n - 1) : d \notin O[(c + k) % n]}
    IN  IF free = {} THEN NoOne
        ELSE (c + (CHOOSE k \in free : \A m \in free : k <= m)) % n

\* The end of a turn of p that starts on d: the first day after d that is
\* OOO for p, or len days after d, or e, whichever comes first.
OooTurnEnd(O, p, d, len, e) ==
    LET stops == {x \in (d + 1)..Min(d + len, e) : x \in O[p] \/ x = Min(d + len, e)}
    IN  CHOOSE x \in stops : \A y \in stops : x <= y

\* The result of round-robin as a function of the OOO dates O, the cursor
\* c, the day d, the turn length and the end of the window, from the
\* assignments acc made so far.
RECURSIVE OooRun(_, _, _, _, _, _)
OooRun(O, c, d, len, e, acc) ==
    IF d >= e THEN [turns |-> acc, result |-> "ok", err_day |-> 0]
    ELSE LET p == OooScan(O, c, d)
         IN  IF p = NoOne THEN [turns |-> acc, result |-> "err", err_day |-> d]
             ELSE LET x == OooTurnEnd(O, p, d, len, e)
                  IN  OooRun(O, (p + 1) % Cardinality(DOMAIN O), x, len, e,
                             Append(acc, Assignment(p, d, x)))

\* C30: round-robin ignores preferences: what a run returns (its
\* assignments, or NoOneAvailable and its date) is what the OOO dates, the
\* window, the turn length and the cursor the seed gives determine, and the
\* preference maps have no part in it, so runs that differ in the
\* preference maps only return the same.
C30_RoundRobinIgnoresPreferences ==
    (algo = "RoundRobin" /\ Returned) =>
        \E c \in (IF initial_load = {} THEN {0} ELSE CarryoverCursors) :
           \E r \in {OooRun(OooOnly, c, start, turn_length_days, end, <<>>)} :
              /\ turns = r.turns
              /\ result = r.result
              /\ result = "err" => err_day = r.err_day

\* A returned round-robin schedule with a turn that starts on a day its
\* person has a NotWant and somebody else has a Want.
C30_Witness ==
    /\ algo = "RoundRobin"
    /\ result = "ok"
    /\ \E k \in TurnIndexes : \E j \in DOMAIN people \ {turns[k].person} :
          /\ PrefIn(turns[k].person, "NotWant", turns[k].start, turns[k].start + 1)
          /\ PrefIn(j, "Want", turns[k].start, turns[k].start + 1)
          /\ turns[k].start \notin people[j].ooo

====
